---- MODULE Spec2Model ----
(***************************************************************************)
(* Model of the findings store of scripts/findings-db.py                   *)
(* (class FindingsDatabase over the SQLite table `findings`).              *)
(*                                                                         *)
(* A row of the table is a record with the 25 columns of the schema.  A    *)
(* finding handed to add_finding is a Python dict: a function whose        *)
(* DOMAIN is the set of keys that were supplied.                           *)
(*                                                                         *)
(* SQL NULL / Python None is NULL for text columns, NoNum for numeric      *)
(* columns and NoTime for timestamp columns.  A timestamp keeps the        *)
(* format it was written in: datetime.now().isoformat() ("iso"), SQLite    *)
(* CURRENT_TIMESTAMP ("sql") or a caller supplied string ("user").         *)
(*                                                                         *)
(* The clock of the model is coarser than one handler: the handler reads   *)
(* datetime.now() at the current value of `clock`; Tick advances it.       *)
(*                                                                         *)
(* One operation runs at a time (main runs one operation inside `with db`).*)
(* While an operation is returning, `call` holds its arguments, `outcome`  *)
(* what it returned or raised and `before` the table as it was when the    *)
(* operation started; Close ends the invocation.                           *)
(***************************************************************************)
EXTENDS Integers, Sequences, FiniteSets, TLC

\* ---------------------------------------------------------------- bounds
MaxFindings == 2
MaxClock == 1

\* ---------------------------------------------------------------- values
NULL == "NULL"
NoNum == -1
NoTime == [fmt |-> "null", t |-> 0]

TsIso(t) == [fmt |-> "iso", t |-> t]
TsSql(t) == [fmt |-> "sql", t |-> t]
TsUser == [fmt |-> "user", t |-> 0]

\* CHECK(severity IN (...)), also severity_order of get_pending_findings
Severities == <<"Critical", "High", "Medium", "Low", "Informational">>
SeveritySet == {Severities[i] : i \in 1..Len(Severities)}
\* CHECK(status IN (...))
StatusSet == {"pending", "approved", "rejected", "submitted", "confirmed", "paid"}

NumCols == {"id", "line_number", "confidence", "bounty_amount"}
TimeCols == {"created_at", "updated_at", "submitted_at"}
NotNullCols == {"finding_id", "repo_name", "repo_url", "vulnerability_type",
                "title", "severity"}

NullOf(k) == IF k \in NumCols THEN NoNum ELSE IF k \in TimeCols THEN NoTime ELSE NULL

\* dict.get(k) and dict.get(k, default)
Get(d, k) == IF k \in DOMAIN d THEN d[k] ELSE NullOf(k)
GetOr(d, k, default) == IF k \in DOMAIN d THEN d[k] ELSE default

\* str[:10] on the repository names of the model
Prefix10(s) == IF s = "solana-lending-protocol" THEN "solana-len" ELSE s

\* f"FND-{datetime.now().strftime('%Y%m%d')}-{finding.get('repo_name', 'unknown')[:10]}"
\* (one tick of the clock is one day for strftime)
GenFindingId(now, finding) ==
    "FND-" \o ToString(now) \o "-" \o Prefix10(GetOr(finding, "repo_name", "unknown"))

\* findings, repositories, scan_history: the three tables, in rowid order
\* query_index .. max_repos: the run of GitHubMonitor.discover_repositories
VARIABLES findings, clock, call, outcome, before,
          repositories, scan_history,
          query_index, seen, discovered, responses, max_repos
repoVars == <<repositories, scan_history>>
discVars == <<query_index, seen, discovered, responses, max_repos>>
vars == <<findings, clock, call, outcome, before, repoVars, discVars>>

\* ------------------------------------------------------------ table access
RowsOf(tbl) == {tbl[i] : i \in 1..Len(tbl)}
HasFinding(tbl, fid) == \E i \in 1..Len(tbl) : tbl[i].finding_id = fid
IndexOf(tbl, fid) == CHOOSE i \in 1..Len(tbl) : tbl[i].finding_id = fid

\* SELECT * FROM findings WHERE finding_id = ?  (None when no row)
get_finding_by_id(tbl, fid) ==
    IF HasFinding(tbl, fid) THEN tbl[IndexOf(tbl, fid)] ELSE [id |-> NoNum]

\* ------------------------------------------------------------ add_finding
\* mutant: an INSERT that binds bounty_amount as well
InsertRow_BindsBounty(tbl, now, finding) ==
    [id                 |-> Len(tbl) + 1,
     finding_id         |-> IF "finding_id" \in DOMAIN finding
                              THEN finding["finding_id"]
                              ELSE GenFindingId(now, finding),
     repo_name          |-> Get(finding, "repo_name"),
     repo_url           |-> Get(finding, "repo_url"),
     repo_owner         |-> Get(finding, "repo_owner"),
     file_path          |-> Get(finding, "file_path"),
     line_number        |-> Get(finding, "line_number"),
     vulnerability_type |-> Get(finding, "vulnerability_type"),
     title              |-> Get(finding, "title"),
     description        |-> Get(finding, "description"),
     severity           |-> Get(finding, "severity"),
     impact             |-> Get(finding, "impact"),
     recommendation     |-> Get(finding, "recommendation"),
     code_snippet       |-> Get(finding, "code_snippet"),
     status             |-> "pending",
     confidence         |-> GetOr(finding, "confidence", 0),
     analyzer           |-> Get(finding, "analyzer"),
     scan_id            |-> Get(finding, "scan_id"),
     created_at         |-> GetOr(finding, "created_at", TsIso(now)),
     updated_at         |-> TsSql(now),
     submitted_at       |-> NoTime,
     bounty_platform    |-> NULL,
     bounty_url         |-> NULL,
     bounty_amount      |-> GetOr(finding, "bounty_amount", NoNum),
     notes              |-> NULL]

\* the row the INSERT statement builds: 17 bound columns, the others DEFAULT
InsertRow(tbl, now, finding) ==
    [id                 |-> Len(tbl) + 1,
     finding_id         |-> IF "finding_id" \in DOMAIN finding
                              THEN finding["finding_id"]
                              ELSE GenFindingId(now, finding),
     repo_name          |-> Get(finding, "repo_name"),
     repo_url           |-> Get(finding, "repo_url"),
     repo_owner         |-> Get(finding, "repo_owner"),
     file_path          |-> Get(finding, "file_path"),
     line_number        |-> Get(finding, "line_number"),
     vulnerability_type |-> Get(finding, "vulnerability_type"),
     title              |-> Get(finding, "title"),
     description        |-> Get(finding, "description"),
     severity           |-> Get(finding, "severity"),
     impact             |-> Get(finding, "impact"),
     recommendation     |-> Get(finding, "recommendation"),
     code_snippet       |-> Get(finding, "code_snippet"),
     status             |-> "pending",
     confidence         |-> GetOr(finding, "confidence", 0),
     analyzer           |-> Get(finding, "analyzer"),
     scan_id            |-> Get(finding, "scan_id"),
     created_at         |-> GetOr(finding, "created_at", TsIso(now)),
     updated_at         |-> TsSql(now),
     submitted_at       |-> NoTime,
     bounty_platform    |-> NULL,
     bounty_url         |-> NULL,
     bounty_amount      |-> NoNum,
     notes              |-> NULL]

\* mutant: the CHECK constraint on status left out of the schema
RowConstraintsOk_NoStatusCheck(row) ==
    /\ \A k \in NotNullCols : row[k] # NULL
    /\ row.severity \in SeveritySet

\* the constraints of CREATE TABLE findings on one row
RowConstraintsOk(row) ==
    /\ \A k \in NotNullCols : row[k] # NULL
    /\ row.severity \in SeveritySet
    /\ row.status \in StatusSet

\* mutant: the UNIQUE constraint on finding_id left out of the schema
UniqueOk_NoUnique(tbl, row) == TRUE

UniqueOk(tbl, row) == ~HasFinding(tbl, row.finding_id)

\* ------------------------------------------------------------ inputs
\* "F1" is the finding most status updates work on, "F2" a second finding,
\* "F9" an id that is never stored
FindingIds == {"F1", "F2"}
UnknownId == "F9"

BaseFinding(fid, sev) ==
    [finding_id |-> fid, repo_name |-> "r1", repo_url |-> "u1",
     vulnerability_type |-> "overflow", title |-> "t1", severity |-> sev]

Without(d, k) == [x \in DOMAIN d \ {k} |-> d[x]]

WorkflowFields ==
    {[status |-> "approved"], [status |-> "bogus"], [notes |-> "n0"],
     [bounty_platform |-> "immunefi", bounty_url |-> "b1", bounty_amount |-> 100]}

OptionalFields ==
    [repo_owner |-> "o1", file_path |-> "lib.rs", line_number |-> 7,
     description |-> "d1", impact |-> "i1", recommendation |-> "rec1",
     code_snippet |-> "c1", analyzer |-> "semgrep", scan_id |-> "s1",
     confidence |-> 90, created_at |-> TsUser]

FindingInputs ==
    \* plain findings, valid and invalid severity
    {BaseFinding("F1", sev) : sev \in {"Critical", "Bogus"}}
    \* every optional column of the INSERT supplied
    \cup {BaseFinding("F1", "High") @@ OptionalFields}
    \* workflow and bounty fields supplied
    \cup {BaseFinding("F1", "Critical") @@ x : x \in WorkflowFields}
    \* a second finding, and the same with a NOT NULL column missing
    \cup {BaseFinding("F2", "Low")}
    \cup {Without(BaseFinding("F2", "Low"), k) : k \in NotNullCols \ {"finding_id"}}
    \* no finding_id: generated from the date and the repository name
    \cup {Without(BaseFinding("F2", "Medium"), "finding_id") @@ [repo_name |-> "solana-lending-protocol"],
          Without(Without(BaseFinding("F2", "Medium"), "finding_id"), "repo_name")}

StatusInputs == StatusSet \cup {"bogus"}

\* (finding_id, status, notes) of the update_finding_status calls
UpdateInputs ==
    {<<fid, st, NULL>> : fid \in {"F1", UnknownId}, st \in StatusInputs}
    \cup {<<"F1", st, n>> : st \in {"approved", "submitted"}, n \in {"n1", "n2"}}
    \cup {<<"F2", "submitted", NULL>>}

NoCall == [op |-> "none"]
NoOutcome == [status |-> "none", ret |-> NoNum]

\* no discovery is running
DiscIdle ==
    /\ query_index = 0
    /\ seen = {}
    /\ discovered = <<>>
    /\ responses = <<>>
    /\ max_repos = 0

Init ==
    /\ findings = <<>>
    /\ clock = 0
    /\ call = NoCall
    /\ outcome = NoOutcome
    /\ before = <<>>
    /\ repositories = <<>>
    /\ scan_history = <<>>
    /\ DiscIdle

\* datetime.now() moves on between two invocations
Tick ==
    /\ call = NoCall
    /\ clock < MaxClock
    /\ clock' = clock + 1
    /\ UNCHANGED <<findings, call, outcome, before, repoVars, discVars>>

\* FindingsDatabase.__exit__ / close: the invocation is over
Close ==
    /\ call # NoCall
    /\ call' = NoCall
    /\ outcome' = NoOutcome
    /\ before' = findings
    /\ UNCHANGED <<findings, clock, repoVars, discVars>>

\* FindingsDatabase.add_finding(finding)
AddFinding(finding) ==
    LET row == InsertRow(findings, clock, finding) IN
    /\ call = NoCall
    \* finding_id: the id the handler leaves in finding['finding_id']
    /\ call' = [op |-> "add_finding", finding |-> finding, finding_id |-> row.finding_id]
    /\ before' = findings
    /\ IF RowConstraintsOk(row) /\ UniqueOk(findings, row)
         THEN /\ Len(findings) < MaxFindings
              /\ findings' = Append(findings, row)
              /\ outcome' = [status |-> "ok", ret |-> row.id]
         ELSE /\ findings' = findings
              /\ outcome' = [status |-> "IntegrityError", ret |-> NoNum]
    /\ UNCHANGED <<clock, repoVars, discVars>>

add_finding == \E finding \in FindingInputs : AddFinding(finding)

\* ------------------------------------------------------- update_finding_status
\* COALESCE(?, notes)
Coalesce(a, b) == IF a # NULL THEN a ELSE b

\* mutant: one UPDATE statement that binds submitted_at on every call, None
\* unless the status is submitted
UpdatedRow_ClearsSubmittedAt(row, now, status, notes) ==
    [row EXCEPT !.status = status, !.updated_at = TsIso(now),
                !.submitted_at = IF status = "submitted" THEN TsIso(now) ELSE NoTime,
                !.notes = Coalesce(notes, row.notes)]

\* mutant: the UPDATE skips findings in a terminal status
UpdatedRow_TerminalKept(row, now, status, notes) ==
    IF row.status \in {"rejected", "paid"}
      THEN row
      ELSE IF status = "submitted"
        THEN [row EXCEPT !.status = status, !.updated_at = TsIso(now),
                         !.submitted_at = TsIso(now), !.notes = Coalesce(notes, row.notes)]
        ELSE [row EXCEPT !.status = status, !.updated_at = TsIso(now),
                         !.notes = Coalesce(notes, row.notes)]

\* mutant: notes = ? in place of notes = COALESCE(?, notes)
UpdatedRow_NotesOverwritten(row, now, status, notes) ==
    IF status = "submitted"
      THEN [row EXCEPT !.status = status, !.updated_at = TsIso(now),
                       !.submitted_at = TsIso(now), !.notes = notes]
      ELSE [row EXCEPT !.status = status, !.updated_at = TsIso(now),
                       !.notes = notes]

\* the SET clause of the two UPDATE statements applied to one matching row
UpdatedRow(row, now, status, notes) ==
    IF status = "submitted"
      THEN [row EXCEPT !.status = status, !.updated_at = TsIso(now),
                       !.submitted_at = TsIso(now), !.notes = Coalesce(notes, row.notes)]
      ELSE [row EXCEPT !.status = status, !.updated_at = TsIso(now),
                       !.notes = Coalesce(notes, row.notes)]

\* UPDATE findings SET ... WHERE finding_id = ?
UpdateTable(tbl, now, fid, status, notes) ==
    [i \in 1..Len(tbl) |->
        IF tbl[i].finding_id = fid THEN UpdatedRow(tbl[i], now, status, notes) ELSE tbl[i]]

\* FindingsDatabase.update_finding_status(finding_id, status, notes)
UpdateFindingStatus(fid, status, notes) ==
    LET tbl == UpdateTable(findings, clock, fid, status, notes) IN
    /\ call = NoCall
    /\ call' = [op |-> "update_finding_status", finding_id |-> fid,
                status |-> status, notes |-> notes]
    /\ before' = findings
    /\ IF \A row \in RowsOf(tbl) : RowConstraintsOk(row)
         THEN /\ findings' = tbl
              /\ outcome' = [status |-> "ok", ret |-> NoNum]
         ELSE /\ findings' = findings
              /\ outcome' = [status |-> "IntegrityError", ret |-> NoNum]
    /\ UNCHANGED <<clock, repoVars, discVars>>

update_finding_status ==
    \E u \in UpdateInputs : UpdateFindingStatus(u[1], u[2], u[3])

\* ------------------------------------------------------- get_pending_findings
\* severity_order.index(s), 0-based
SeverityIndex(s) == (CHOOSE i \in 1..Len(Severities) : Severities[i] = s) - 1

\* min_index = severity_order.index(min_severity) if min_severity in severity_order else 0
MinIndex(min_severity) ==
    IF min_severity \in SeveritySet THEN SeverityIndex(min_severity) ELSE 0

\* mutant: severity_order[:min_index], the threshold itself left out
AllowedSeverities_OffByOne(min_severity) ==
    {Severities[i] : i \in 1..MinIndex(min_severity)}

\* allowed_severities = severity_order[:min_index + 1]
AllowedSeverities(min_severity) ==
    {Severities[i] : i \in 1..(MinIndex(min_severity) + 1)}

\* ORDER BY CASE severity WHEN 'Critical' THEN 1 ... ELSE 5 END
OrderCase(sev) ==
    CASE sev = "Critical" -> 1
      [] sev = "High" -> 2
      [] sev = "Medium" -> 3
      [] sev = "Low" -> 4
      [] OTHER -> 5

\* row a sorts strictly before row b under ORDER BY CASE ..., confidence DESC
SortsBefore(a, b) ==
    \/ OrderCase(a.severity) < OrderCase(b.severity)
    \/ /\ OrderCase(a.severity) = OrderCase(b.severity)
       /\ a.confidence > b.confidence

\* WHERE status = 'pending' AND severity IN (allowed), in rowid order
RECURSIVE SelectPending(_, _)
SelectPending(tbl, allowed) ==
    IF tbl = <<>> THEN <<>>
    ELSE LET rest == SelectPending(Tail(tbl), allowed) IN
         IF Head(tbl).status = "pending" /\ Head(tbl).severity \in allowed
           THEN <<Head(tbl)>> \o rest
           ELSE rest

\* the sorter: rows that compare equal keep the order of the scan
RECURSIVE InsertSorted(_, _)
InsertSorted(row, sorted) ==
    IF sorted = <<>> THEN <<row>>
    ELSE IF SortsBefore(row, Head(sorted))
           THEN <<row>> \o sorted
           ELSE <<Head(sorted)>> \o InsertSorted(row, Tail(sorted))

RECURSIVE OrderRows(_)
OrderRows(rows) ==
    IF rows = <<>> THEN <<>>
    ELSE InsertSorted(rows[Len(rows)], OrderRows(SubSeq(rows, 1, Len(rows) - 1)))

\* FindingsDatabase.get_pending_findings(min_severity)
get_pending_findings(tbl, min_severity) ==
    OrderRows(SelectPending(tbl, AllowedSeverities(min_severity)))

\* ---------------------------------------------- stores for the query operations
MaxRows == 4

\* (severity, status, confidence) of the findings of a queried store
QueryRowKinds ==
    {<<"Critical", "pending", 50>>, <<"Critical", "pending", 90>>,
     <<"High", "pending", 50>>, <<"High", "approved", 50>>,
     <<"Medium", "pending", 50>>, <<"Medium", "pending", 90>>,
     <<"Low", "pending", 50>>, <<"Informational", "pending", 50>>}

QueryId(i) == "Q" \o ToString(i)

\* the row left by add_finding and, for a status other than pending, a
\* following update_finding_status
QueryRow(tbl, i, kind) ==
    LET row == InsertRow(tbl, 0, BaseFinding(QueryId(i), kind[1]) @@ [confidence |-> kind[3]])
    IN IF kind[2] = "pending" THEN row ELSE UpdatedRow(row, 0, kind[2], NULL)

RECURSIVE QueryTable(_)
QueryTable(kinds) ==
    IF kinds = <<>> THEN <<>>
    ELSE LET tbl == QueryTable(SubSeq(kinds, 1, Len(kinds) - 1))
         IN Append(tbl, QueryRow(tbl, Len(kinds), kinds[Len(kinds)]))

MinSeverityInputs == SeveritySet \cup {"Bogus", "HIGH"}

InitQuery ==
    /\ \E n \in 0..MaxRows : \E kinds \in [1..n -> QueryRowKinds] :
          findings = QueryTable(kinds)
    /\ clock = 0
    /\ call = NoCall
    /\ outcome = NoOutcome
    /\ before = findings
    /\ repositories = <<>>
    /\ scan_history = <<>>
    /\ DiscIdle

GetPendingFindings(min_severity) ==
    /\ call = NoCall
    /\ call' = [op |-> "get_pending_findings", min_severity |-> min_severity]
    /\ outcome' = [status |-> "ok", ret |-> get_pending_findings(findings, min_severity)]
    /\ before' = findings
    /\ UNCHANGED <<findings, clock, repoVars, discVars>>

pending_above == \E min_severity \in MinSeverityInputs : GetPendingFindings(min_severity)

NextQuery == pending_above \/ Close

SpecQuery == InitQuery /\ [][NextQuery]_vars

\* ---------------------------------------- repositories and scan_history tables
\* cap on the AUTOINCREMENT row ids of the two tables
MaxRowId == 3

\* dict.get(k) for a key of numeric / timestamp type
GetNum(d, k) == IF k \in DOMAIN d THEN d[k] ELSE NoNum
GetTime(d, k) == IF k \in DOMAIN d THEN d[k] ELSE NoTime
GetText(d, k) == IF k \in DOMAIN d THEN d[k] ELSE NULL

\* AUTOINCREMENT: one more than the largest row id ever used; rows are only
\* deleted by a REPLACE, which inserts a newer row, so that is the last row's
NextRowId(tbl) == IF tbl = <<>> THEN 1 ELSE tbl[Len(tbl)].id + 1

HasRepo(tbl, name) == \E i \in 1..Len(tbl) : tbl[i].repo_name = name
RepoRows(tbl, name) == {i \in 1..Len(tbl) : tbl[i].repo_name = name}
RepoOf(tbl, name) == tbl[CHOOSE i \in 1..Len(tbl) : tbl[i].repo_name = name]

HasScan(tbl, sid) == \E i \in 1..Len(tbl) : tbl[i].scan_id = sid
ScanRows(tbl, sid) == {i \in 1..Len(tbl) : tbl[i].scan_id = sid}
ScanOf(tbl, sid) == tbl[CHOOSE i \in 1..Len(tbl) : tbl[i].scan_id = sid]

\* the columns the INSERT OR REPLACE of add_repository binds
RepoBoundCols == {"repo_name", "repo_url", "owner", "stars", "forks",
                  "audit_priority", "last_scan_id", "last_scan_date"}

\* the row of INSERT OR REPLACE INTO repositories: 8 bound columns, the
\* others DEFAULT
RepositoryRow(tbl, now, repo_info) ==
    [id             |-> NextRowId(tbl),
     repo_name      |-> GetText(repo_info, "repo_name"),
     repo_url       |-> GetText(repo_info, "repo_url"),
     owner          |-> GetText(repo_info, "owner"),
     stars          |-> GetNum(repo_info, "stars"),
     forks          |-> GetNum(repo_info, "forks"),
     audit_priority |-> GetNum(repo_info, "audit_priority"),
     last_scan_id   |-> GetText(repo_info, "last_scan_id"),
     last_scan_date |-> GetTime(repo_info, "last_scan_date"),
     total_findings |-> 0,
     status         |-> "active",
     created_at     |-> TsSql(now)]

\* NOT NULL and CHECK constraints of CREATE TABLE repositories
RepositoryConstraintsOk(row) ==
    /\ row.repo_name # NULL
    /\ row.repo_url # NULL
    /\ row.status \in {"active", "archived", "excluded"}

\* SelectSeq without a LAMBDA: the rows of tbl whose repo_name is not name
RECURSIVE WithoutRepo(_, _)
WithoutRepo(tbl, name) ==
    IF tbl = <<>> THEN <<>>
    ELSE IF Head(tbl).repo_name = name
           THEN WithoutRepo(Tail(tbl), name)
           ELSE <<Head(tbl)>> \o WithoutRepo(Tail(tbl), name)

\* OR REPLACE: the row that holds the UNIQUE repo_name is deleted, the new row
\* is inserted
ReplaceRepository(tbl, row) == Append(WithoutRepo(tbl, row.repo_name), row)

\* the row of INSERT INTO scan_history: 10 bound columns, error_message DEFAULT
ScanRow(tbl, scan_info) ==
    [id                    |-> NextRowId(tbl),
     scan_id               |-> GetText(scan_info, "scan_id"),
     repo_name             |-> GetText(scan_info, "repo_name"),
     scan_date             |-> GetTime(scan_info, "scan_date"),
     semgrep_findings      |-> IF "semgrep_findings" \in DOMAIN scan_info
                                 THEN scan_info["semgrep_findings"] ELSE 0,
     cargo_vulnerabilities |-> IF "cargo_vulnerabilities" \in DOMAIN scan_info
                                 THEN scan_info["cargo_vulnerabilities"] ELSE 0,
     llm_findings          |-> IF "llm_findings" \in DOMAIN scan_info
                                 THEN scan_info["llm_findings"] ELSE 0,
     files_scanned         |-> IF "files_scanned" \in DOMAIN scan_info
                                 THEN scan_info["files_scanned"] ELSE 0,
     lines_scanned         |-> IF "lines_scanned" \in DOMAIN scan_info
                                 THEN scan_info["lines_scanned"] ELSE 0,
     duration_seconds      |-> GetNum(scan_info, "duration_seconds"),
     status                |-> IF "status" \in DOMAIN scan_info
                                 THEN scan_info["status"] ELSE "completed",
     error_message         |-> NULL]

\* NOT NULL and CHECK constraints of CREATE TABLE scan_history
ScanConstraintsOk(row) ==
    /\ row.scan_id # NULL
    /\ row.repo_name # NULL
    /\ row.status \in {"running", "completed", "failed"}

\* mutant: scan_id without its UNIQUE constraint
ScanUniqueOk_NoUnique(tbl, row) == TRUE

\* scan_id TEXT UNIQUE
ScanUniqueOk(tbl, row) == ~HasScan(tbl, row.scan_id)

RepoInputs ==
    {[repo_name |-> "r1", repo_url |-> "u1", owner |-> "o1", stars |-> st,
      forks |-> 1, audit_priority |-> 5] : st \in {10, 20}}
    \cup {[repo_name |-> "r1", repo_url |-> "u1", last_scan_id |-> "s1",
           last_scan_date |-> TsUser],
          [repo_name |-> "r2", repo_url |-> "u2"],
          [repo_name |-> "r2"],
          [repo_url |-> "u2"]}

ScanInputs ==
    {[scan_id |-> "s1", repo_name |-> "r1", semgrep_findings |-> n] : n \in {1, 2}}
    \cup {[scan_id |-> "s1", repo_name |-> "r1", semgrep_findings |-> 1,
           status |-> "failed"],
          [scan_id |-> "s2", repo_name |-> "r1", scan_date |-> TsUser,
           cargo_vulnerabilities |-> 1, llm_findings |-> 2, files_scanned |-> 3,
           lines_scanned |-> 40, duration_seconds |-> 9, status |-> "running"],
          [scan_id |-> "s2", repo_name |-> "r1", status |-> "bogus"],
          [scan_id |-> "s2"],
          [repo_name |-> "r1"]}

\* FindingsDatabase.add_repository(repo_info)
AddRepository(repo_info) ==
    LET row == RepositoryRow(repositories, clock, repo_info) IN
    /\ call = NoCall
    /\ call' = [op |-> "add_repository", repo_info |-> repo_info]
    /\ before' = repositories
    /\ IF RepositoryConstraintsOk(row)
         THEN /\ row.id <= MaxRowId
              /\ repositories' = ReplaceRepository(repositories, row)
              /\ outcome' = [status |-> "ok", ret |-> NoNum]
         ELSE /\ repositories' = repositories
              /\ outcome' = [status |-> "IntegrityError", ret |-> NoNum]
    /\ UNCHANGED <<findings, clock, scan_history, discVars>>

add_repository == \E repo_info \in RepoInputs : AddRepository(repo_info)

\* FindingsDatabase.add_scan_history(scan_info)
AddScanHistory(scan_info) ==
    LET row == ScanRow(scan_history, scan_info) IN
    /\ call = NoCall
    /\ call' = [op |-> "add_scan_history", scan_info |-> scan_info]
    /\ before' = scan_history
    /\ IF ScanConstraintsOk(row) /\ ScanUniqueOk(scan_history, row)
         THEN /\ row.id <= MaxRowId
              /\ scan_history' = Append(scan_history, row)
              /\ outcome' = [status |-> "ok", ret |-> NoNum]
         ELSE /\ scan_history' = scan_history
              /\ outcome' = [status |-> "IntegrityError", ret |-> NoNum]
    /\ UNCHANGED <<findings, clock, repositories, discVars>>

add_scan_history == \E scan_info \in ScanInputs : AddScanHistory(scan_info)

NextRepo == Tick \/ add_repository \/ add_scan_history \/ Close

SpecRepo == Init /\ [][NextRepo]_vars

\* ------------------------------------------- GitHubMonitor._calculate_priority
\* A Python string is the sequence of its characters.
UpperCase == <<"A", "B", "C", "D", "E", "F", "G", "H", "I", "J", "K", "L", "M", "N", "O", "P", "Q", "R", "S", "T", "U", "V", "W", "X", "Y", "Z">>
LowerCase == <<"a", "b", "c", "d", "e", "f", "g", "h", "i", "j", "k", "l", "m", "n", "o", "p", "q", "r", "s", "t", "u", "v", "w", "x", "y", "z">>

\* str.lower()
LowerChar(c) ==
    IF \E i \in 1..Len(UpperCase) : UpperCase[i] = c
      THEN LowerCase[CHOOSE i \in 1..Len(UpperCase) : UpperCase[i] = c]
      ELSE c
Lower(str) == [i \in 1..Len(str) |-> LowerChar(str[i])]

\* kw in description
Contains(str, kw) ==
    \E i \in 1..(Len(str) - Len(kw) + 1) : SubSeq(str, i, i + Len(kw) - 1) = kw

\* keywords = ["token", "defi", "lending", "dex", "amm", "staking", "governance"]
PriorityKeywords ==
    <<<<"t", "o", "k", "e", "n">>,
      <<"d", "e", "f", "i">>,
      <<"l", "e", "n", "d", "i", "n", "g">>,
      <<"d", "e", "x">>,
      <<"a", "m", "m">>,
      <<"s", "t", "a", "k", "i", "n", "g">>,
      <<"g", "o", "v", "e", "r", "n", "a", "n", "c", "e">>>>

\* solana_keywords of is_solana_project
SolanaKeywords ==
    <<<<"s", "o", "l", "a", "n", "a">>,
      <<"s", "p", "l">>,
      <<"a", "n", "c", "h", "o", "r">>,
      <<"s", "e", "a", "l", "e", "v", "e", "l">>>>

\* repo.get("description") or "": a description that is None (GitHub's null)
\* is a key outside DOMAIN repo, as an absent one is
DescriptionOf(repo) ==
    IF "description" \in DOMAIN repo THEN repo["description"] ELSE <<>>

\* mutant: the keyword list of is_solana_project used in place of the bonus list
KeywordMatches_AlsoSolana(repo) ==
    Cardinality({i \in 1..Len(PriorityKeywords) :
                    Contains(Lower(DescriptionOf(repo)), PriorityKeywords[i])})
    + Cardinality({i \in 1..Len(SolanaKeywords) :
                    Contains(Lower(DescriptionOf(repo)), SolanaKeywords[i])})

\* for kw in keywords: if kw in description: (one match per keyword)
KeywordMatches(repo) ==
    Cardinality({i \in 1..Len(PriorityKeywords) :
                    Contains(Lower(DescriptionOf(repo)), PriorityKeywords[i])})

\* repo["updated_at"] is absent or empty ("none"), a string fromisoformat
\* rejects ("malformed"), or a timestamp that lies `days` whole days before
\* datetime.now(): days = (datetime.now(tz) - updated).days, negative for a
\* timestamp in the future
UpdatedNone == [kind |-> "none", days |-> 0]
UpdatedMalformed == [kind |-> "malformed", days |-> 0]
UpdatedDaysAgo(n) == [kind |-> "date", days |-> n]

RecencyPoints(repo) ==
    LET updated_at == IF "updated_at" \in DOMAIN repo THEN repo["updated_at"] ELSE UpdatedNone
    IN IF updated_at.kind # "date" THEN 0
       ELSE IF updated_at.days < 7 THEN 30
       ELSE IF updated_at.days < 30 THEN 20
       ELSE IF updated_at.days < 90 THEN 10
       ELSE 0

Min(a, b) == IF a <= b THEN a ELSE b

\* the float `score` in hundredths: min(stars / 100, 40) + recency
\* + min(forks / 20, 20) + 2 per keyword
ScoreHundredths(repo) ==
    LET stars == IF "stargazers_count" \in DOMAIN repo THEN repo["stargazers_count"] ELSE 0
        forks == IF "forks_count" \in DOMAIN repo THEN repo["forks_count"] ELSE 0
    IN Min(stars, 40 * 100) + 100 * RecencyPoints(repo)
       + Min(5 * forks, 20 * 100) + 100 * 2 * KeywordMatches(repo)

\* return int(score)
calculate_priority(repo) == ScoreHundredths(repo) \div 100

Str_empty == <<>>
Str_lending == <<"s", "o", "l", "a", "n", "a", " ", "l", "e", "n", "d", "i", "n", "g", " ", "p", "r", "o", "t", "o", "c", "o", "l">>
Str_dex == <<"T", "o", "k", "e", "n", " ", "D", "E", "X", " ", "w", "i", "t", "h", " ", "A", "M", "M">>
Str_all == <<"d", "e", "f", "i", " ", "t", "o", "k", "e", "n", " ", "l", "e", "n", "d", "i", "n", "g", " ", "d", "e", "x", " ", "a", "m", "m", " ", "s", "t", "a", "k", "i", "n", "g", " ", "g", "o", "v", "e", "r", "n", "a", "n", "c", "e">>
Str_index == <<"t", "o", "k", "e", "n", "i", "z", "e", "d", " ", "i", "n", "d", "e", "x">>
Str_nft == <<"N", "F", "T", " ", "m", "a", "r", "k", "e", "t", "p", "l", "a", "c", "e">>

DescriptionInputs == {Str_empty, Str_lending, Str_dex, Str_all, Str_index, Str_nft}
StarInputs == {0, 50, 99, 150, 3999, 4000, 100000}
ForkInputs == {0, 19, 30, 80, 399, 400, 5000}
UpdatedInputs ==
    {UpdatedNone, UpdatedMalformed}
    \cup {UpdatedDaysAgo(n) : n \in {-1, 0, 2, 6, 7, 29, 30, 89, 90, 365}}

PriorityInputs ==
    [stargazers_count : StarInputs, forks_count : ForkInputs,
     updated_at : UpdatedInputs, description : DescriptionInputs]
    \cup {[description |-> Str_dex], [stargazers_count |-> 150],
          [stargazers_count |-> 4000, forks_count |-> 400,
           updated_at |-> UpdatedDaysAgo(0)]}

CalculatePriority(repo) ==
    /\ call = NoCall
    /\ call' = [op |-> "calculate_priority", repo |-> repo]
    /\ outcome' = [status |-> "ok", ret |-> calculate_priority(repo)]
    /\ before' = findings
    /\ UNCHANGED <<findings, clock, repoVars, discVars>>

priority_score == \E repo \in PriorityInputs : CalculatePriority(repo)

NextPriority == priority_score \/ Close

SpecPriority == Init /\ [][NextPriority]_vars

\* ------------------------------------------ GitHubMonitor.discover_repositories
\* len(SOLANA_QUERIES)
NumQueries == 5
\* EXCLUDED_REPOS
EXCLUDED_REPOS == {"solana-labs/solana", "solana-labs/solana-program-library"}
\* min_stars: int = 50
MinStars == 50
\* largest max_repos a discovery is started with
MaxRepos == 2

\* is_solana_project: a keyword in the lowered description, a lowered topic
\* equal to a keyword, or the language Rust
is_solana_project(repo) ==
    \/ \E i \in 1..Len(SolanaKeywords) :
          Contains(Lower(DescriptionOf(repo)), SolanaKeywords[i])
    \/ \E i \in 1..Len(SolanaKeywords) : \E j \in 1..Len(repo.topics) :
          Lower(repo.topics[j]) = SolanaKeywords[i]
    \/ repo.language = "Rust"

should_audit(repo) ==
    /\ ~(repo.stargazers_count < MinStars)
    /\ repo.full_name \notin EXCLUDED_REPOS
    /\ is_solana_project(repo)
    /\ ~repo.archived

\* the dictionary appended to `discovered` (its other keys are copies of the
\* provider's fields and are read by nothing in discovery)
DiscoveredEntry(repo) ==
    [id |-> repo.id, full_name |-> repo.full_name,
     stars |-> repo.stargazers_count,
     audit_priority |-> calculate_priority(repo)]

\* what the provider can return for a repository
Topic_solana == <<"S", "o", "l", "a", "n", "a">>
Repo_A ==
    [id |-> 1, full_name |-> "acme/lend", stargazers_count |-> 60,
     forks_count |-> 0, updated_at |-> UpdatedDaysAgo(2),
     description |-> Str_lending, language |-> "Rust", topics |-> <<>>,
     archived |-> FALSE]
\* the same repository id with other field values, as a later query may see it
Repo_A2 ==
    [id |-> 1, full_name |-> "acme/lend", stargazers_count |-> 4000,
     forks_count |-> 400, updated_at |-> UpdatedDaysAgo(0),
     description |-> Str_all, language |-> "Rust", topics |-> <<>>,
     archived |-> FALSE]
Repo_B ==
    [id |-> 2, full_name |-> "acme/bank", stargazers_count |-> 4000,
     forks_count |-> 80, updated_at |-> UpdatedDaysAgo(2),
     description |-> Str_lending, language |-> "Rust", topics |-> <<>>,
     archived |-> FALSE]
Repo_C ==
    [id |-> 3, full_name |-> "acme/old", stargazers_count |-> 4000,
     forks_count |-> 400, updated_at |-> UpdatedDaysAgo(0),
     description |-> Str_all, language |-> "Rust", topics |-> <<>>,
     archived |-> TRUE]
Repo_D ==
    [id |-> 4, full_name |-> "acme/small", stargazers_count |-> 49,
     forks_count |-> 19, updated_at |-> UpdatedDaysAgo(0),
     description |-> Str_dex, language |-> "Rust", topics |-> <<>>,
     archived |-> FALSE]
\* the repository id of Repo_D once it has gathered stars
Repo_D2 ==
    [id |-> 4, full_name |-> "acme/small", stargazers_count |-> 4000,
     forks_count |-> 19, updated_at |-> UpdatedDaysAgo(0),
     description |-> Str_dex, language |-> "Rust", topics |-> <<>>,
     archived |-> FALSE]
Repo_E ==
    [id |-> 5, full_name |-> "solana-labs/solana", stargazers_count |-> 100000,
     forks_count |-> 5000, updated_at |-> UpdatedDaysAgo(0),
     description |-> Str_empty, language |-> "Rust", topics |-> <<>>,
     archived |-> FALSE]
Repo_N ==
    [id |-> 6, full_name |-> "acme/nft", stargazers_count |-> 4000,
     forks_count |-> 400, updated_at |-> UpdatedDaysAgo(0),
     description |-> Str_nft, language |-> "Python", topics |-> <<Str_nft>>,
     archived |-> FALSE]
Repo_T ==
    [id |-> 7, full_name |-> "acme/index", stargazers_count |-> 150,
     forks_count |-> 30, updated_at |-> UpdatedDaysAgo(29),
     description |-> Str_index, language |-> "Go", topics |-> <<Topic_solana>>,
     archived |-> FALSE]

\* data.get("items", []) of a successful search
ItemLists ==
    {<<>>, <<Repo_A>>, <<Repo_B>>, <<Repo_A, Repo_B>>, <<Repo_A2, Repo_B>>,
     <<Repo_C, Repo_D, Repo_E, Repo_N>>, <<Repo_T, Repo_B>>, <<Repo_D2>>}

\* what the provider does for one query: a RequestException, or a body
ProviderFailure == [failed |-> TRUE, items |-> <<>>]
ProviderResponses ==
    {ProviderFailure} \cup {[failed |-> FALSE, items |-> l] : l \in ItemLists}

\* mutant: the RequestException is not caught
search_repositories_Raises(resp) ==
    [raised |-> resp.failed, items |-> resp.items]

\* search_repositories: except RequestException: return []
search_repositories(resp) ==
    [raised |-> FALSE, items |-> IF resp.failed THEN <<>> ELSE resp.items]

\* mutant: no repository id counts as seen
AlreadySeen_Never(repo, s) == FALSE

\* if repo_id in seen
AlreadySeen(repo, s) == repo.id \in s

\* for repo in repos: ... (the inner loop, with its break)
RECURSIVE InnerLoop(_, _, _, _)
InnerLoop(repos, s, d, n) ==
    IF repos = <<>> THEN [seen |-> s, discovered |-> d]
    ELSE LET repo == Head(repos) IN
         IF AlreadySeen(repo, s) THEN InnerLoop(Tail(repos), s, d, n)
         ELSE IF should_audit(repo)
           THEN LET d2 == Append(d, DiscoveredEntry(repo)) IN
                IF Len(d2) >= n
                  THEN [seen |-> s \cup {repo.id}, discovered |-> d2]
                  ELSE InnerLoop(Tail(repos), s \cup {repo.id}, d2, n)
           ELSE InnerLoop(Tail(repos), s \cup {repo.id}, d, n)

\* discovered.sort(key=audit_priority, reverse=True): stable, equal keys keep
\* their order
RECURSIVE InsertByPriority(_, _)
InsertByPriority(sorted, e) ==
    IF sorted = <<>> THEN <<e>>
    ELSE IF Head(sorted).audit_priority >= e.audit_priority
      THEN <<Head(sorted)>> \o InsertByPriority(Tail(sorted), e)
      ELSE <<e>> \o sorted
RECURSIVE SortByPriority(_)
SortByPriority(d) ==
    IF d = <<>> THEN <<>>
    ELSE InsertByPriority(SortByPriority(SubSeq(d, 1, Len(d) - 1)), d[Len(d)])

Discovering == call.op = "discover_repositories" /\ outcome = NoOutcome

\* discovered = []; seen = set()
DiscoverStart(n) ==
    /\ call = NoCall /\ query_index = 0
    /\ call' = [op |-> "discover_repositories", max_repos |-> n]
    /\ outcome' = NoOutcome
    /\ query_index' = 1
    /\ seen' = {}
    /\ discovered' = <<>>
    /\ responses' = <<>>
    /\ max_repos' = n
    /\ UNCHANGED <<findings, clock, before, repoVars>>

\* one iteration of `for query in SOLANA_QUERIES`
QueryStep(resp) ==
    /\ Discovering /\ query_index \in 1..NumQueries
    /\ responses' = Append(responses, resp)
    /\ LET result == search_repositories(resp) IN
       IF result.raised
         THEN /\ outcome' = [status |-> "RequestException", ret |-> NoNum]
              /\ UNCHANGED <<query_index, seen, discovered>>
         ELSE \E r \in {InnerLoop(result.items, seen, discovered, max_repos)} :
              /\ seen' = r.seen
              /\ discovered' = r.discovered
              /\ query_index' = IF Len(r.discovered) >= max_repos
                                  THEN NumQueries + 1 ELSE query_index + 1
              /\ UNCHANGED outcome
    /\ UNCHANGED <<findings, clock, call, before, repoVars, max_repos>>

\* discovered.sort(...); return discovered[:max_repos]
DiscoverReturn ==
    /\ Discovering /\ query_index = NumQueries + 1
    /\ discovered' = SortByPriority(discovered)
    /\ outcome' = [status |-> "ok",
                   ret |-> SubSeq(discovered', 1, Min(max_repos, Len(discovered')))]
    /\ UNCHANGED <<findings, clock, call, before, repoVars,
                   query_index, seen, responses, max_repos>>

discover_start == \E n \in 0..MaxRepos : DiscoverStart(n)
query_step == \E resp \in ProviderResponses : QueryStep(resp)

NextDiscover == discover_start \/ query_step \/ DiscoverReturn

SpecDiscover == Init /\ [][NextDiscover]_vars

\* ------------------------------------------------ FindingsDatabase.get_findings
\* `if severity:` -- None and the empty string add no condition to the query
Truthy(x) == x # NULL /\ x # ""

\* WHERE 1=1 [AND severity = ?] [AND status = ?] [AND repo_name = ?]
WhereFindings(row, severity, status, repo) ==
    /\ Truthy(severity) => row.severity = severity
    /\ Truthy(status) => row.status = status
    /\ Truthy(repo) => row.repo_name = repo

RECURSIVE SelectFindings(_, _, _, _)
SelectFindings(tbl, severity, status, repo) ==
    IF tbl = <<>> THEN <<>>
    ELSE LET rest == SelectFindings(Tail(tbl), severity, status, repo) IN
         IF WhereFindings(Head(tbl), severity, status, repo)
           THEN <<Head(tbl)>> \o rest
           ELSE rest

\* the order of created_at values: NULL is below every text, and two
\* isoformat() strings compare as their instants do
CreatedRank(row) == IF row.created_at = NoTime THEN -1 ELSE row.created_at.t

\* ORDER BY created_at DESC: rows that compare equal keep the order of the scan
RECURSIVE InsertByCreated(_, _)
InsertByCreated(sorted, row) ==
    IF sorted = <<>> THEN <<row>>
    ELSE IF CreatedRank(Head(sorted)) >= CreatedRank(row)
      THEN <<Head(sorted)>> \o InsertByCreated(Tail(sorted), row)
      ELSE <<row>> \o sorted
RECURSIVE OrderByCreatedDesc(_)
OrderByCreatedDesc(rows) ==
    IF rows = <<>> THEN <<>>
    ELSE InsertByCreated(OrderByCreatedDesc(SubSeq(rows, 1, Len(rows) - 1)),
                         rows[Len(rows)])

\* LIMIT ?: a negative limit is no limit
LimitRows(rows, limit) ==
    IF limit < 0 THEN rows ELSE SubSeq(rows, 1, Min(limit, Len(rows)))

get_findings(tbl, severity, status, repo, limit) ==
    LimitRows(OrderByCreatedDesc(SelectFindings(tbl, severity, status, repo)), limit)

\* largest store the list query is run on
MaxListRows == 3

\* (severity, status, repo_name, created_at) of the findings of a listed store
ListRowKinds ==
    {<<"High", "pending", "r1", TsIso(0)>>, <<"High", "pending", "r1", TsIso(2)>>,
     <<"High", "approved", "r2", TsIso(1)>>, <<"Low", "pending", "r1", TsIso(1)>>,
     <<"Low", "approved", "", TsIso(2)>>, <<"High", "pending", "r2", NoTime>>}

\* the row left by add_finding and, for a status other than pending, a
\* following update_finding_status
ListRow(tbl, i, kind) ==
    LET row == InsertRow(tbl, 0, BaseFinding(QueryId(i), kind[1])
                                   @@ [created_at |-> kind[4]])
        named == [row EXCEPT !.repo_name = kind[3]]
    IN IF kind[2] = "pending" THEN named ELSE UpdatedRow(named, 0, kind[2], NULL)

RECURSIVE ListTable(_)
ListTable(kinds) ==
    IF kinds = <<>> THEN <<>>
    ELSE LET tbl == ListTable(SubSeq(kinds, 1, Len(kinds) - 1))
         IN Append(tbl, ListRow(tbl, Len(kinds), kinds[Len(kinds)]))

SeverityFilters == {NULL, "", "High"}
StatusFilters == {NULL, "approved"}
RepoFilters == {NULL, "", "r1"}
LimitInputs == {0, 1, 2, 50}

InitList ==
    /\ \E n \in 0..MaxListRows : \E kinds \in [1..n -> ListRowKinds] :
          findings = ListTable(kinds)
    /\ clock = 0
    /\ call = NoCall
    /\ outcome = NoOutcome
    /\ before = findings
    /\ repositories = <<>>
    /\ scan_history = <<>>
    /\ DiscIdle

GetFindings(severity, status, repo, limit) ==
    /\ call = NoCall
    /\ call' = [op |-> "get_findings", severity |-> severity, status |-> status,
                repo |-> repo, limit |-> limit]
    /\ outcome' = [status |-> "ok",
                   ret |-> get_findings(findings, severity, status, repo, limit)]
    /\ before' = findings
    /\ UNCHANGED <<findings, clock, repoVars, discVars>>

list_findings ==
    \E severity \in SeverityFilters, status \in StatusFilters,
       repo \in RepoFilters, limit \in LimitInputs :
        GetFindings(severity, status, repo, limit)

NextList == list_findings \/ Close

SpecList == InitList /\ [][NextList]_vars

\* ---------------------------------------------- FindingsDatabase.get_statistics
\* LIMIT 10 of the by_repo query
TopRepos == 10
\* datetime('now', '-7 days')
RecentDays == 7
\* most repositories a store of the statistics runs has findings of
MaxStatRepos == 12

\* SELECT COUNT(*) FROM findings WHERE col = v
CountOf(tbl, col, v) == Cardinality({i \in 1..Len(tbl) : tbl[i][col] = v})

\* SELECT col, COUNT(*) FROM findings GROUP BY col, as the dictionary built
\* from its rows
GroupCount(tbl, col) ==
    [v \in {tbl[i][col] : i \in 1..Len(tbl)} |-> CountOf(tbl, col, v)]

\* the repo_name of the r-th repository; GROUP BY yields its groups in the
\* text order of their keys, which for these names is the order of r
RepoName(r) == "r" \o (IF r < 10 THEN "0" ELSE "") \o ToString(r)
KeyIndex(name) == CHOOSE r \in 1..(MaxStatRepos + 1) : RepoName(r) = name

\* mutant: ORDER BY count DESC left out, the first groups are kept
TopRepoNames_Unordered(tbl) ==
    LET groups == GroupCount(tbl, "repo_name")
    IN {k \in DOMAIN groups :
          Cardinality({j \in DOMAIN groups : KeyIndex(j) < KeyIndex(k)}) < TopRepos}

\* GROUP BY repo_name ORDER BY count DESC LIMIT 10: the groups fewer than 10
\* groups sort before, groups of equal count staying in key order
TopRepoNames(tbl) ==
    LET groups == GroupCount(tbl, "repo_name")
        SortsFirst(j, k) ==
            \/ groups[j] > groups[k]
            \/ groups[j] = groups[k] /\ KeyIndex(j) < KeyIndex(k)
    IN {k \in DOMAIN groups :
          Cardinality({j \in DOMAIN groups : SortsFirst(j, k)}) < TopRepos}

\* WHERE created_at > datetime('now', '-7 days'), clock and created_at counted
\* in days: the comparison is one of texts, an isoformat() value of the
\* threshold's day is above it ('T' > ' '), and NULL is never above
IsRecent(row, now) ==
    row.created_at # NoTime /\ row.created_at.t >= now - RecentDays

\* COALESCE(SUM(bounty_amount), 0) ... WHERE status = 'paid': NULLs are skipped
RECURSIVE SumPaidBounty(_)
SumPaidBounty(tbl) ==
    IF tbl = <<>> THEN 0
    ELSE SumPaidBounty(Tail(tbl))
         + (IF Head(tbl).status = "paid" /\ Head(tbl).bounty_amount # NoNum
              THEN Head(tbl).bounty_amount ELSE 0)

get_statistics(tbl, now) ==
    [total_findings  |-> Len(tbl),
     by_severity     |-> GroupCount(tbl, "severity"),
     by_status       |-> GroupCount(tbl, "status"),
     by_repo         |-> [k \in TopRepoNames(tbl) |-> CountOf(tbl, "repo_name", k)],
     recent_findings |-> Cardinality({i \in 1..Len(tbl) : IsRecent(tbl[i], now)}),
     submissions     |-> Cardinality({i \in 1..Len(tbl) :
                            tbl[i].status \in {"submitted", "confirmed", "paid"}}),
     total_earnings  |-> SumPaidBounty(tbl)]

\* how many findings the r-th of n repositories has
CountPatterns == {"ones", "alternating", "first_heavy", "last_heavy"}
FindingsOfRepo(pattern, r, n) ==
    CASE pattern = "ones" -> 1
      [] pattern = "alternating" -> 1 + (r % 2)
      [] pattern = "first_heavy" -> IF r = 1 THEN 3 ELSE 1
      [] OTHER -> IF r = n THEN 3 ELSE 1

\* the repository of each finding, in rowid order
RECURSIVE RepoOfRows(_, _, _)
RepoOfRows(pattern, r, n) ==
    IF r = 0 THEN <<>>
    ELSE RepoOfRows(pattern, r - 1, n)
         \o [c \in 1..FindingsOfRepo(pattern, r, n) |-> r]

StatusCycle == <<"pending", "paid", "approved", "submitted", "rejected", "confirmed">>
StatusPatterns == {"pending", "cycle", "paid"}
StatusOfRow(pattern, k) ==
    IF pattern = "cycle" THEN StatusCycle[(k % Len(StatusCycle)) + 1] ELSE pattern

\* the row left by add_finding and, for a status other than pending, a
\* following update_finding_status
StatsRow(tbl, k, r, status) ==
    LET row == InsertRow(tbl, 0, [BaseFinding(QueryId(k), Severities[(k % Len(Severities)) + 1])
                                    EXCEPT !.repo_name = RepoName(r)]
                                 @@ [created_at |-> TsIso((k % 3) * 5)])
    IN IF status = "pending" THEN row ELSE UpdatedRow(row, 0, status, NULL)

RECURSIVE StatsTable(_, _)
StatsTable(repos, pattern) ==
    IF repos = <<>> THEN <<>>
    ELSE LET k == Len(repos)
             tbl == StatsTable(SubSeq(repos, 1, k - 1), pattern)
         IN Append(tbl, StatsRow(tbl, k, repos[k], StatusOfRow(pattern, k)))

InitStats ==
    /\ \E n \in 0..MaxStatRepos, cp \in CountPatterns, sp \in StatusPatterns :
          findings = StatsTable(RepoOfRows(cp, n, n), sp)
    /\ clock = 10
    /\ call = NoCall
    /\ outcome = NoOutcome
    /\ before = findings
    /\ repositories = <<>>
    /\ scan_history = <<>>
    /\ DiscIdle

GetStatistics ==
    /\ call = NoCall
    /\ call' = [op |-> "get_statistics"]
    /\ outcome' = [status |-> "ok", ret |-> get_statistics(findings, clock)]
    /\ before' = findings
    /\ UNCHANGED <<findings, clock, repoVars, discVars>>

NextStats == GetStatistics \/ Close

SpecStats == InitStats /\ [][NextStats]_vars

\* ------------------------------------------------------------------- main
\* The command line with none of --init, --add, --stats, --pending, --list:
\* (--update-status, --finding-id, --notes), NULL for an option not given.
\* ret is the exit status of the process: 0 when main returns, 1 when an
\* exception leaves it.
MainInputs ==
    {<<"approved", NULL, NULL>>, <<"approved", "F1", "n1">>,
     <<"bogus", "F1", NULL>>, <<NULL, "F1", NULL>>}

Main(update_status, finding_id, notes) ==
    /\ call = NoCall
    /\ call' = [op |-> "main", update_status |-> update_status,
                finding_id |-> finding_id, notes |-> notes]
    /\ before' = findings
    /\ IF Truthy(update_status) /\ Truthy(finding_id)
         THEN \* db.update_finding_status(...) inside `with db:`
              LET tbl == UpdateTable(findings, clock, finding_id, update_status, notes) IN
              IF \A row \in RowsOf(tbl) : RowConstraintsOk(row)
                THEN /\ findings' = tbl
                     /\ outcome' = [status |-> "exit", ret |-> 0]
                ELSE /\ findings' = findings
                     /\ outcome' = [status |-> "exit", ret |-> 1]
         ELSE \* parser.print_help()
              /\ findings' = findings
              /\ outcome' = [status |-> "exit", ret |-> 0]
    /\ UNCHANGED <<clock, repoVars, discVars>>

cli_main == \E a \in MainInputs : Main(a[1], a[2], a[3])

NextCli == Tick \/ add_finding \/ cli_main \/ Close

SpecCli == Init /\ [][NextCli]_vars

\* ------------------------------------------- the store operations together
\* insert, update_status, upsert_repository, append_scan_run and the
\* statistics over one store, with findings whose insert supplies the bounty
\* fields
BountyFinding(fid, sev, r) == [BaseFinding(fid, sev) EXCEPT !.repo_name = RepoName(r)]
BountyFindings ==
    {BountyFinding("F1", "Critical", 1)
        @@ [bounty_platform |-> "immunefi", bounty_url |-> "b1", bounty_amount |-> 100],
     BountyFinding("F2", "Low", 2) @@ [bounty_amount |-> 7],
     BountyFinding("F2", "Low", 2)}
BountyUpdates ==
    {<<"F1", "paid", NULL>>, <<"F1", "submitted", "n1">>, <<"F2", "paid", NULL>>,
     <<"F2", "bogus", NULL>>}
BountyRepos == {[repo_name |-> "r1", repo_url |-> "u1"], [repo_name |-> "r2"]}
BountyScans == {[scan_id |-> "s1", repo_name |-> "r1"], [scan_id |-> "s2"]}

bounty_insert == \E finding \in BountyFindings : AddFinding(finding)
bounty_update == \E u \in BountyUpdates : UpdateFindingStatus(u[1], u[2], u[3])
bounty_upsert == \E repo_info \in BountyRepos : AddRepository(repo_info)
bounty_scan == \E scan_info \in BountyScans : AddScanHistory(scan_info)

NextStore ==
    \/ bounty_insert \/ bounty_update \/ bounty_upsert \/ bounty_scan
    \/ GetStatistics \/ Close

SpecStore == Init /\ [][NextStore]_vars

\* ======================================================================
\* Properties of the store operations (specification Spec)
\* ======================================================================
IsAdd == call.op = "add_finding"
IsUpdate == call.op = "update_finding_status"
Ok == outcome.status = "ok"
ConstraintViolation == outcome.status = "IntegrityError"
NotFound == outcome.status = "NotFound"
RowOf(tbl, fid) == tbl[IndexOf(tbl, fid)]

\* C1: update_status with a finding_id that matches no stored finding fails
\* with NotFound (not a successful no-op) and leaves the store unchanged.
C1_UnknownIdIsNotFound ==
    (IsUpdate /\ ~HasFinding(before, call.finding_id))
        => (NotFound /\ findings = before)

\* C2: insert of a finding that carries a status outside the six enumerated
\* values fails with ConstraintViolation and stores no record.
C2_InvalidStatusRejected ==
    (IsAdd /\ "status" \in DOMAIN call.finding /\ call.finding["status"] \notin StatusSet)
        => (ConstraintViolation /\ findings = before)

\* C3: insert with the finding_id of an already stored finding fails with
\* ConstraintViolation; the number of findings and every field of the stored
\* record are as before the call.
C3_DuplicateIdRejected ==
    (IsAdd /\ HasFinding(before, call.finding_id))
        => /\ ConstraintViolation
           /\ Len(findings) = Len(before)
           /\ RowOf(findings, call.finding_id) = RowOf(before, call.finding_id)
           /\ findings = before

C3_Witness ==
    /\ IsAdd /\ HasFinding(before, call.finding_id) /\ ConstraintViolation
    /\ call.finding = BaseFinding("F1", "Critical")
    /\ RowOf(findings, "F1").status = "paid"

C5_SubmittedAt ==
    /\ \A row \in RowsOf(findings) :
          \* a finding that was not there before the call starts with null
          /\ ~HasFinding(before, row.finding_id) => row.submitted_at = NoTime
          /\ HasFinding(before, row.finding_id) =>
               LET old == RowOf(before, row.finding_id)
                   submit == IsUpdate /\ Ok /\ call.finding_id = row.finding_id
                                /\ call.status = "submitted"
               IN /\ (old.submitted_at = NoTime /\ ~submit) => row.submitted_at = NoTime
                  /\ submit => row.submitted_at # NoTime
                  /\ old.submitted_at # NoTime => row.submitted_at # NoTime
                  /\ ~submit => row.submitted_at = old.submitted_at
    /\ \A old \in RowsOf(before) : HasFinding(findings, old.finding_id)

C5_Witness ==
    /\ IsUpdate /\ Ok /\ call.status = "confirmed"
    /\ HasFinding(before, call.finding_id)
    /\ RowOf(before, call.finding_id).submitted_at # NoTime
    /\ RowOf(before, call.finding_id).updated_at # RowOf(findings, call.finding_id).updated_at
    /\ RowOf(findings, call.finding_id).submitted_at = RowOf(before, call.finding_id).submitted_at

\* C6: once submitted_at of a finding has a value, no later update_status call
\* on that finding (a second update_status(id, submitted) included) changes it.
C6_SubmittedAtSetOnce ==
    (IsUpdate /\ HasFinding(before, call.finding_id)
       /\ RowOf(before, call.finding_id).submitted_at # NoTime)
        => RowOf(findings, call.finding_id).submitted_at
             = RowOf(before, call.finding_id).submitted_at

\* C7: the store rejects no status transition: update_status(id, t) on a
\* stored finding of status s succeeds and leaves it with status t, for every
\* pair (s, t) of the six statuses.
C7_AnyTransitionAccepted ==
    (IsUpdate /\ HasFinding(before, call.finding_id) /\ call.status \in StatusSet)
        => /\ Ok
           /\ RowOf(findings, call.finding_id).status = call.status

\* a transition out of the terminal status paid back to pending
C7_Witness ==
    /\ IsUpdate /\ Ok /\ HasFinding(before, call.finding_id)
    /\ RowOf(before, call.finding_id).status = "paid"
    /\ call.status = "pending"
    /\ RowOf(findings, call.finding_id).status = "pending"

\* C10: right after an accepted insert, get_by_id(finding_id) returns a record
\* equal to the supplied finding on every supplied field, with created_at and
\* updated_at populated.
C10_RoundTrip ==
    (IsAdd /\ Ok) =>
        LET rec == get_finding_by_id(findings, call.finding_id) IN
        /\ rec.id # NoNum
        /\ \A k \in DOMAIN call.finding : rec[k] = call.finding[k]
        /\ rec.created_at # NoTime
        /\ rec.updated_at # NoTime


\* C20: update_status called without notes leaves the notes the finding had
\* stored, whatever they were and whatever the new status; notes that are
\* supplied replace the stored ones.
C20_NotesMergePreserve ==
    (IsUpdate /\ HasFinding(before, call.finding_id)) =>
        LET old == RowOf(before, call.finding_id).notes
            new == RowOf(findings, call.finding_id).notes
        IN /\ call.notes = NULL => new = old
           /\ (call.notes # NULL /\ Ok) => new = call.notes

\* a finding with stored notes takes a new status in a call without notes
C20_Witness ==
    /\ IsUpdate /\ Ok /\ call.notes = NULL
    /\ HasFinding(before, call.finding_id)
    /\ RowOf(before, call.finding_id).notes = "n1"
    /\ RowOf(findings, call.finding_id).notes = "n1"
    /\ RowOf(findings, call.finding_id).status # RowOf(before, call.finding_id).status

\* a finding with stored notes is given other notes
NotesReplaced ==
    /\ IsUpdate /\ Ok /\ call.notes = "n2"
    /\ HasFinding(before, call.finding_id)
    /\ RowOf(before, call.finding_id).notes = "n1"
    /\ RowOf(findings, call.finding_id).notes = "n2"

\* ======================================================================
\* Properties of the query operations (specification SpecQuery)
\* ======================================================================
IsPending == call.op = "get_pending_findings"
SeqRows(q) == {q[i] : i \in 1..Len(q)}
PendingRows(tbl) == {row \in RowsOf(tbl) : row.status = "pending"}
\* rank of a severity: Critical = 1 < High < Medium < Low < Informational
Rank(sev) == CHOOSE i \in 1..Len(Severities) : Severities[i] = sev
SeveritiesOf(q) == [i \in 1..Len(q) |-> q[i].severity]

\* C8: pending_above with a min_severity outside the five severities does not
\* fail and returns every pending finding, whatever its severity.
C8_InvalidMinIncludesAll ==
    (IsPending /\ call.min_severity \notin SeveritySet)
        => /\ Ok
           /\ SeqRows(outcome.ret) = PendingRows(findings)

\* C9: for a valid min_severity, pending_above returns exactly the pending
\* findings of severity rank at most that of min_severity, each once, ordered
\* by rank ascending and by confidence descending within a rank; pending
\* findings of severities [Critical, Low, High, Medium] and min_severity Medium
\* give Critical, High, Medium in that order.
C9_PendingAbove ==
    (IsPending /\ call.min_severity \in SeveritySet) =>
        LET ret == outcome.ret IN
        /\ Ok
        /\ SeqRows(ret) = {row \in PendingRows(findings) :
                              Rank(row.severity) <= Rank(call.min_severity)}
        /\ Len(ret) = Cardinality(SeqRows(ret))
        /\ \A i, j \in 1..Len(ret) :
              i < j => \/ Rank(ret[i].severity) < Rank(ret[j].severity)
                       \/ /\ Rank(ret[i].severity) = Rank(ret[j].severity)
                          /\ ret[i].confidence >= ret[j].confidence
        /\ (/\ SeveritiesOf(findings) = <<"Critical", "Low", "High", "Medium">>
            /\ PendingRows(findings) = RowsOf(findings)
            /\ call.min_severity = "Medium")
              => SeveritiesOf(ret) = <<"Critical", "High", "Medium">>

\* the scenario of the claim, and a store where confidence decides the order
C9_Witness ==
    /\ IsPending /\ call.min_severity = "Medium"
    /\ SeveritiesOf(findings) = <<"Critical", "Low", "High", "Medium">>
    /\ PendingRows(findings) = RowsOf(findings)
    /\ SeveritiesOf(outcome.ret) = <<"Critical", "High", "Medium">>

\* ======================================================================
\* Properties of the repository and scan tables (specification SpecRepo)
\* ======================================================================
IsAddScan == call.op = "add_scan_history"
IsAddRepo == call.op = "add_repository"

\* C11: append_scan_run is an insert-or-replace keyed by scan_id: a second
\* call with a stored scan_id succeeds and leaves exactly one scan record for
\* that scan_id, holding the values of the latest call.
C11_ScanInsertOrReplace ==
    (IsAddScan /\ "scan_id" \in DOMAIN call.scan_info
       /\ HasScan(before, call.scan_info["scan_id"])
       /\ ScanConstraintsOk(ScanRow(before, call.scan_info)))
        => /\ Ok
           /\ Cardinality(ScanRows(scan_history, call.scan_info["scan_id"])) = 1
           /\ \A k \in DOMAIN call.scan_info :
                 ScanOf(scan_history, call.scan_info["scan_id"])[k] = call.scan_info[k]

\* C11 as amended: append_scan_run is a plain insert keyed by scan_id: a second
\* call with a stored scan_id fails with ConstraintViolation and leaves the
\* table as it was, with exactly one scan record for that scan_id, holding the
\* values of the first call.
C11_ScanDuplicateRejected ==
    (IsAddScan /\ "scan_id" \in DOMAIN call.scan_info
       /\ HasScan(before, call.scan_info["scan_id"]))
        => /\ ConstraintViolation
           /\ Cardinality(ScanRows(scan_history, call.scan_info["scan_id"])) = 1
           /\ ScanOf(scan_history, call.scan_info["scan_id"])
                = ScanOf(before, call.scan_info["scan_id"])
           /\ scan_history = before

\* a second call for "s1" with other values, the first call's values kept
C11_Witness ==
    /\ IsAddScan /\ ConstraintViolation
    /\ call.scan_info = [scan_id |-> "s1", repo_name |-> "r1", semgrep_findings |-> 2]
    /\ HasScan(before, "s1")
    /\ ScanOf(scan_history, "s1").semgrep_findings = 1

\* the stored row is the one a call with this repo_info leaves
StoredFrom(row, repo_info) ==
    /\ \A k \in RepoBoundCols \cap DOMAIN repo_info : row[k] = repo_info[k]
    /\ \A k \in RepoBoundCols \ DOMAIN repo_info :
          row[k] = (IF k \in {"stars", "forks", "audit_priority"} THEN NoNum
                    ELSE IF k = "last_scan_date" THEN NoTime ELSE NULL)

\* C12: upsert_repository called a second time with identical input leaves
\* exactly one repository record for that repo_name, and every field of the
\* record has the value it had after the first call.
C12_UpsertIdempotent ==
    (IsAddRepo /\ Ok /\ HasRepo(before, call.repo_info["repo_name"])
       /\ StoredFrom(RepoOf(before, call.repo_info["repo_name"]), call.repo_info))
        => /\ Cardinality(RepoRows(repositories, call.repo_info["repo_name"])) = 1
           /\ RepoOf(repositories, call.repo_info["repo_name"])
                = RepoOf(before, call.repo_info["repo_name"])

\* ======================================================================
\* Properties of the priority score (specification SpecPriority)
\* ======================================================================
IsPriority == call.op = "calculate_priority"

\* C13: for any repository with non-negative star and fork counts, any
\* last-update timestamp and any description, the priority score is an
\* integer in the range 0..100.
C13_ScoreInRange ==
    IsPriority => outcome.ret \in 0..100

\* the repository of the scenario: 4000 stars, updated 2 days ago, 80 forks,
\* description "solana lending protocol"
ScenarioRepo ==
    [stargazers_count |-> 4000, forks_count |-> 80,
     updated_at |-> UpdatedDaysAgo(2), description |-> Str_lending]

\* C15: the repository of the scenario is given the priority score 78.
C15_Scenario78 ==
    (IsPriority /\ call.repo = ScenarioRepo) => outcome.ret = 78

\* C15 as amended: the repository of the scenario is given the priority score
\* 76 = 40 + 30 + 4 + 2, "lending" being its only bonus keyword.
C15_Scenario76 ==
    (IsPriority /\ call.repo = ScenarioRepo) => outcome.ret = 40 + 30 + 4 + 2

C15_Witness ==
    /\ IsPriority /\ call.repo = ScenarioRepo
    /\ Ok /\ outcome.ret = 76

\* ======================================================================
\* Properties of discovery (specification SpecDiscover)
\* ======================================================================
IsDiscover == call.op = "discover_repositories"

\* the repositories of ItemLists, with the verdict of should_audit and the
\* entry discovery appends for each of them
Pool == UNION {{l[i] : i \in 1..Len(l)} : l \in ItemLists}
PoolAudit == [repo \in Pool |-> should_audit(repo)]
PoolEntry == [repo \in Pool |-> DiscoveredEntry(repo)]

\* every repository the provider returned to this discovery, in order
RECURSIVE ItemsUpTo(_, _)
ItemsUpTo(resps, n) ==
    IF n = 0 THEN <<>> ELSE ItemsUpTo(resps, n - 1) \o resps[n].items
ItemsOf(resps) == ItemsUpTo(resps, Len(resps))

\* the candidates: the first occurrence of each repository id that passes the
\* admission filter
Admitted(items) ==
    {i \in 1..Len(items) :
        /\ PoolAudit[items[i]]
        /\ \A j \in 1..(i - 1) : items[j].id # items[i].id}

\* C14: discover_repositories returns the max_repos highest-scoring candidates
\* among all admitted candidates of the query results, in descending score
\* order: as many as there are, up to max_repos, and no admitted candidate left
\* out scores strictly higher than a returned one.
C14_TopNOfAllAdmitted ==
    (IsDiscover /\ Ok) =>
        LET out == outcome.ret
            items == ItemsOf(responses)
        IN /\ Len(out) = Min(max_repos, Cardinality(Admitted(items)))
           /\ \A k \in 1..(Len(out) - 1) :
                 out[k].audit_priority >= out[k + 1].audit_priority
           /\ \A i \in Admitted(items) :
                 (\A k \in 1..Len(out) : out[k].id # items[i].id)
                 => \A k \in 1..Len(out) :
                       PoolEntry[items[i]].audit_priority <= out[k].audit_priority

\* C19: a query whose search fails is treated as one with zero results: no
\* error leaves discover_repositories, the candidates gathered so far are kept,
\* and discovery goes on to the next query.
C19_FailedQueryIsEmpty ==
    [][(Discovering /\ Len(responses') = Len(responses) + 1
          /\ responses'[Len(responses')].failed)
       => /\ outcome' = NoOutcome
          /\ discovered' = discovered
          /\ seen' = seen
          /\ query_index' = IF Len(discovered) >= max_repos
                              THEN NumQueries + 1 ELSE query_index + 1]_vars

\* a failed query between two successful ones: the candidate of the earlier
\* query and the candidate of the later one are both returned
C19_Witness ==
    /\ IsDiscover /\ Ok
    /\ Len(responses) = 3
    /\ responses[1].items = <<Repo_A>>
    /\ responses[2].failed
    /\ responses[3].items = <<Repo_B>>
    /\ {outcome.ret[k].id : k \in 1..Len(outcome.ret)} = {Repo_A.id, Repo_B.id}

\* the entries gathered so far, or the returned list once discovery is over
DiscoveredSoFar == IF Ok THEN outcome.ret ELSE discovered

\* C21: discovery deduplicates by repository id across all queries: an id is
\* put through the admission filter and scored at its first occurrence in the
\* query results only, later occurrences are skipped without re-scoring, and
\* no two entries of the returned list have the same id.
C21_DedupeById ==
    IsDiscover =>
        \A items \in {ItemsOf(responses)}, d \in {DiscoveredSoFar} :
           /\ \A k1, k2 \in 1..Len(d) : k1 # k2 => d[k1].id # d[k2].id
           /\ \A k \in 1..Len(d) : \E i \in 1..Len(items) :
                 /\ items[i].id = d[k].id
                 /\ \A j \in 1..(i - 1) : items[j].id # items[i].id
                 /\ PoolAudit[items[i]]
                 /\ d[k] = PoolEntry[items[i]]

\* Repo_A is returned with the score of its first occurrence although a later
\* query returned the same id with other field values, and the id of Repo_D,
\* rejected at its first occurrence, is not returned although a later
\* occurrence would pass the filter
C21_Witness ==
    /\ IsDiscover /\ Ok
    /\ Len(responses) = 3
    /\ responses[1].items = <<Repo_C, Repo_D, Repo_E, Repo_N>>
    /\ responses[2].items = <<Repo_A>>
    /\ responses[3].items = <<Repo_A2, Repo_B>>
    /\ outcome.ret = <<DiscoveredEntry(Repo_B), DiscoveredEntry(Repo_A)>>
    /\ should_audit(Repo_D2) /\ ~should_audit(Repo_D)
    /\ calculate_priority(Repo_A2) # calculate_priority(Repo_A)

\* a later occurrence of a rejected id is skipped
RejectedIdSkipped ==
    /\ IsDiscover /\ Ok
    /\ \E i, j \in 1..Len(responses) :
          /\ i < j
          /\ responses[i].items = <<Repo_C, Repo_D, Repo_E, Repo_N>>
          /\ responses[j].items = <<Repo_D2>>
    /\ \A k \in 1..Len(outcome.ret) : outcome.ret[k].id # Repo_D2.id

\* ======================================================================
\* Properties of the list query (specification SpecList)
\* ======================================================================
IsList == call.op = "get_findings"

\* a stored finding satisfies every supplied filter: an absent filter (None)
\* matches all values of its field
SatisfiesFilters(row, c) ==
    /\ c.severity # NULL => row.severity = c.severity
    /\ c.status # NULL => row.status = c.status
    /\ c.repo # NULL => row.repo_name = c.repo

\* the result is the stored findings in `matching`, ordered by created_at
\* descending and truncated to the first `limit` records
IsOrderedPrefixOf(out, matching, limit) ==
    /\ \A k \in 1..Len(out) : \E i \in matching : out[k] = findings[i]
    /\ \A k1, k2 \in 1..Len(out) : k1 # k2 => out[k1].id # out[k2].id
    /\ \A k \in 1..(Len(out) - 1) : CreatedRank(out[k]) >= CreatedRank(out[k + 1])
    /\ Len(out) = Min(limit, Cardinality(matching))
    /\ \A i \in matching :
          (\A k \in 1..Len(out) : out[k].id # findings[i].id)
          => \A k \in 1..Len(out) : CreatedRank(findings[i]) <= CreatedRank(out[k])

\* C16: query(filters, limit) returns exactly the stored findings that satisfy
\* every supplied filter among severity, status and repo_name, ordered by
\* created_at descending and truncated to the first `limit` records.
C16_QueryFilters ==
    IsList =>
        IsOrderedPrefixOf(outcome.ret,
                          {i \in 1..Len(findings) : SatisfiesFilters(findings[i], call)},
                          call.limit)

\* the same for calls none of whose filters is the empty string
ListOfNonEmptyFilters ==
    (IsList /\ call.severity # "" /\ call.status # "" /\ call.repo # "") =>
        IsOrderedPrefixOf(outcome.ret,
                          {i \in 1..Len(findings) : SatisfiesFilters(findings[i], call)},
                          call.limit)

\* ======================================================================
\* Properties of the statistics (specification SpecStats)
\* ======================================================================
IsStats == call.op = "get_statistics"

RECURSIVE SumOfCounts(_, _)
SumOfCounts(f, keys) ==
    IF keys = {} THEN 0
    ELSE LET k == CHOOSE x \in keys : TRUE
         IN f[k] + SumOfCounts(f, keys \ {k})

ValuesPresent(col) == {findings[i][col] : i \in 1..Len(findings)}
NumberWith(col, v) == Cardinality({i \in 1..Len(findings) : findings[i][col] = v})

\* C17: aggregate_statistics returns total_findings = number of findings;
\* by_severity and by_status = counts per value present, each summing to
\* total_findings; by_repo = the at most 10 repo_names with the highest counts;
\* submissions = number of findings submitted, confirmed or paid;
\* total_earnings = sum of bounty_amount over paid findings, 0 if none; on an
\* empty store the counts are 0 and the grouping maps empty.
C17_Statistics ==
    IsStats =>
        LET stats == outcome.ret
            paid == {i \in 1..Len(findings) :
                        findings[i].status = "paid" /\ findings[i].bounty_amount # NoNum}
        IN /\ stats.total_findings = Len(findings)
           /\ DOMAIN stats.by_severity = ValuesPresent("severity")
           /\ \A v \in ValuesPresent("severity") :
                 stats.by_severity[v] = NumberWith("severity", v)
           /\ SumOfCounts(stats.by_severity, DOMAIN stats.by_severity) = Len(findings)
           /\ DOMAIN stats.by_status = ValuesPresent("status")
           /\ \A v \in ValuesPresent("status") :
                 stats.by_status[v] = NumberWith("status", v)
           /\ SumOfCounts(stats.by_status, DOMAIN stats.by_status) = Len(findings)
           /\ DOMAIN stats.by_repo \subseteq ValuesPresent("repo_name")
           /\ Cardinality(DOMAIN stats.by_repo)
                = Min(10, Cardinality(ValuesPresent("repo_name")))
           /\ \A v \in DOMAIN stats.by_repo :
                 stats.by_repo[v] = NumberWith("repo_name", v)
           /\ \A v \in ValuesPresent("repo_name") \ DOMAIN stats.by_repo :
                 \A w \in DOMAIN stats.by_repo :
                    NumberWith("repo_name", v) <= stats.by_repo[w]
           /\ stats.submissions
                = NumberWith("status", "submitted") + NumberWith("status", "confirmed")
                  + NumberWith("status", "paid")
           /\ stats.total_earnings
                = SumOfCounts([i \in paid |-> findings[i].bounty_amount], paid)
           /\ findings = <<>> =>
                 /\ stats.total_findings = 0 /\ stats.total_earnings = 0
                 /\ DOMAIN stats.by_severity = {} /\ DOMAIN stats.by_status = {}
                 /\ DOMAIN stats.by_repo = {}

\* statistics of a store with more than 10 repositories, one of them with more
\* findings than a repository that by_repo leaves out, and with paid findings
C17_Witness ==
    /\ IsStats /\ Ok
    /\ Cardinality(ValuesPresent("repo_name")) > 10
    /\ \E v \in ValuesPresent("repo_name") \ DOMAIN outcome.ret.by_repo :
          \E w \in DOMAIN outcome.ret.by_repo :
             NumberWith("repo_name", v) < outcome.ret.by_repo[w]
    /\ NumberWith("status", "paid") > 0
    /\ outcome.ret.submissions > NumberWith("status", "paid")

\* ======================================================================
\* Properties of the command line (specification SpecCli)
\* ======================================================================
IsMain == call.op = "main"

\* C18: the status update of the command line invoked with --update-status
\* and without --finding-id ends with a non-zero exit status and changes no
\* finding.
C18_MissingIdFails ==
    (IsMain /\ call.update_status # NULL /\ call.finding_id = NULL) =>
        /\ outcome.ret # 0
        /\ findings = before

\* ======================================================================
\* Properties of the store as a whole (specification SpecStore)
\* ======================================================================
\* C22: no store operation writes bounty_amount: in every state reached
\* through insert, update_status, upsert_repository and append_scan_run the
\* bounty_amount of every finding is null, also of a paid finding and of one
\* whose insert supplied a bounty_amount, and aggregate_statistics reports
\* total_earnings = 0.
C22_BountyNeverWritten ==
    /\ \A i \in 1..Len(findings) : findings[i].bounty_amount = NoNum
    /\ IsStats => outcome.ret.total_earnings = 0

\* the statistics of a store of two paid findings, both inserted with a
\* bounty_amount, after a repository upsert and a scan record
C22_Witness ==
    /\ IsStats /\ Ok
    /\ Len(findings) = 2
    /\ \A i \in 1..Len(findings) : findings[i].status = "paid"
    /\ repositories # <<>> /\ scan_history # <<>>
    /\ outcome.ret.submissions = 2
    /\ outcome.ret.total_earnings = 0

\* both findings of that store were inserted with a bounty_amount
BountySuppliedAndDropped ==
    /\ IsAdd /\ Ok
    /\ "bounty_amount" \in DOMAIN call.finding
    /\ call.finding["bounty_amount"] = 7
    /\ RowOf(findings, call.finding_id).bounty_amount = NoNum

Next == Tick \/ add_finding \/ update_finding_status \/ Close

Spec == Init /\ [][Next]_vars
====
